---- MODULE Spec2Model ----
(***************************************************************************)
(* Model of the MarineTraffic vessel scraper: the scheduler and runScraper *)
(* (main script), scrapeVesselData with its response interceptor and its   *)
(* fallback chain (vessel-scraper.js), and saveVesselsToDatabase with the  *)
(* PostgreSQL transaction it drives.                                       *)
(***************************************************************************)
EXTENDS Integers, Sequences, FiniteSets, TLC

(***************************************************************************)
(* Bounds of the model.                                                    *)
(***************************************************************************)
\* scheduler ticks (setInterval firings) explored after startup
MaxTicks == 2
\* network responses delivered to the interceptor during one session
MaxResponses == 2
\* runScraper invocations that can be represented past the guard at once
MaxRuns == 2

Runs == 1..MaxRuns

(***************************************************************************)
(* JavaScript values.  A string is a sequence of one-character strings, a  *)
(* number is mant / 10^frac with frac minimal.                             *)
(***************************************************************************)
Null == [t |-> "null"]
Undefined == [t |-> "undefined"]
NaN == [t |-> "nan"]
Str(s) == [t |-> "str", s |-> s]
Norm(m, f) == IF f > 0 /\ m % 10 = 0 THEN [m |-> m \div 10, f |-> f - 1] ELSE [m |-> m, f |-> f]
Num(m, f) ==
  LET a == Norm(m, f) b == Norm(a.m, a.f) c == Norm(b.m, b.f)
  IN [t |-> "num", mant |-> c.m, frac |-> c.f]
Whole(n) == Num(n, 0)
\* an ISO-8601 instant, written by its epoch second
IsoTime(sec) == [t |-> "iso", sec |-> sec]

IsStr(v) == v.t = "str"
IsNum(v) == v.t = "num"
\* JavaScript truthiness
Truthy(v) ==
  CASE v.t = "null" -> FALSE
    [] v.t = "undefined" -> FALSE
    [] v.t = "nan" -> FALSE
    [] v.t = "str" -> Len(v.s) > 0
    [] v.t = "num" -> v.mant # 0
    [] OTHER -> TRUE

Digits == {"0", "1", "2", "3", "4", "5", "6", "7", "8", "9"}
DigitVal(c) ==
  CASE c = "0" -> 0 [] c = "1" -> 1 [] c = "2" -> 2 [] c = "3" -> 3 [] c = "4" -> 4
    [] c = "5" -> 5 [] c = "6" -> 6 [] c = "7" -> 7 [] c = "8" -> 8 [] c = "9" -> 9

\* index of the first position >= i of s that holds no character of set cs
RECURSIVE SkipWhile(_, _, _)
SkipWhile(s, i, cs) ==
  IF i <= Len(s) /\ s[i] \in cs THEN SkipWhile(s, i + 1, cs) ELSE i

\* value of the digits s[i..j-1]
RECURSIVE DigitsVal(_, _, _)
DigitsVal(s, i, j) ==
  IF j <= i THEN 0 ELSE DigitsVal(s, i, j - 1) * 10 + DigitVal(s[j - 1])

Pow10(n) == CASE n = 0 -> 1 [] n = 1 -> 10 [] n = 2 -> 100 [] n = 3 -> 1000 [] OTHER -> 10000

\* String.prototype.replace(',', '.'): the first comma only
RECURSIVE ReplaceFirstComma(_)
ReplaceFirstComma(s) ==
  IF s = <<>> THEN <<>>
  ELSE IF Head(s) = "," THEN <<".">> \o Tail(s)
  ELSE <<Head(s)>> \o ReplaceFirstComma(Tail(s))

\* the longest decimal literal starting at s[i]: [end, value], end = i when
\* there is none ([sign] digits [. digits] | [sign] . digits)
DecimalPrefix(s, i) ==
  LET sg == IF i <= Len(s) /\ s[i] \in {"-", "+"} THEN i + 1 ELSE i
      neg == i <= Len(s) /\ s[i] = "-"
      ie == SkipWhile(s, sg, Digits)
      hasDot == ie <= Len(s) /\ s[ie] = "."
      fe == IF hasDot THEN SkipWhile(s, ie + 1, Digits) ELSE ie
      nInt == ie - sg
      nFrac == IF hasDot THEN fe - (ie + 1) ELSE 0
      mag == DigitsVal(s, sg, ie) * Pow10(nFrac)
             + (IF nFrac > 0 THEN DigitsVal(s, ie + 1, fe) ELSE 0)
  IN IF nInt + nFrac = 0 THEN [end |-> i, val |-> NaN]
     ELSE [end |-> fe, val |-> Num(IF neg THEN 0 - mag ELSE mag, nFrac)]

\* parseFloat: leading white space skipped, trailing text ignored
parseFloat(s) == DecimalPrefix(s, SkipWhile(s, 1, {" "})).val

\* parseInt(String(v)): leading white space, sign, then digits
parseInt(v) ==
  IF IsNum(v) THEN
    (IF v.frac = 0 THEN v
     ELSE Whole((IF v.mant < 0 THEN 0 - ((0 - v.mant) \div Pow10(v.frac))
               ELSE v.mant \div Pow10(v.frac))))
  ELSE IF ~IsStr(v) THEN NaN
  ELSE
    LET s == v.s
        i == SkipWhile(s, 1, {" "})
        sg == IF i <= Len(s) /\ s[i] \in {"-", "+"} THEN i + 1 ELSE i
        neg == i <= Len(s) /\ s[i] = "-"
        ie == SkipWhile(s, sg, Digits)
        mag == DigitsVal(s, sg, ie)
    IN IF ie = sg THEN NaN ELSE Whole(IF neg THEN 0 - mag ELSE mag)

\* ToNumber, as isNaN applies it: a string must be a numeric literal as a
\* whole, white space trimmed, the empty string being 0
ToNumber(v) ==
  CASE v.t = "num" -> v
    [] v.t = "null" -> Whole(0)
    [] v.t = "str" ->
         LET s == v.s
             i == SkipWhile(s, 1, {" "})
             p == DecimalPrefix(s, i)
             e == SkipWhile(s, p.end, {" "})
         IN IF i > Len(s) THEN Whole(0)
            ELSE IF p.val.t = "nan" \/ e <= Len(s) THEN NaN
            ELSE p.val
    [] OTHER -> NaN
isNaN(v) == ToNumber(v).t = "nan"

\* new Date(timestamp * 1000).toISOString(); an invalid date throws
\* RangeError, which the caller's catch turns into null
EpochToIso(ts) == IF ts.t = "nan" THEN Null ELSE IsoTime(ts.mant)

\* Date.parse of the date-only form YYYY-MM-DD; any other text of the
\* model's alphabet is an invalid date
IsIsoDate(s) ==
  /\ Len(s) = 10
  /\ s[5] = "-" /\ s[8] = "-"
  /\ \A i \in {1, 2, 3, 4, 6, 7, 9, 10} : s[i] \in Digits
  /\ DigitsVal(s, 6, 8) \in 1..12
  /\ DigitsVal(s, 9, 11) \in 1..31

(***************************************************************************)
(* formatVesselData: a vessel record is a function from its keys to values *)
(***************************************************************************)
numericFields == {"LAT", "LON", "SPEED", "COURSE", "DRAUGHT_MAX", "DRAUGHT_MIN",
                  "LENGTH", "WIDTH", "LENGTH_B_W_PERPENDICULARS", "LENGTH_REGISTERED",
                  "DEPTH", "BREADTH_MOULDED", "BREADTH_EXTREME"}

\* a field that is absent reads as undefined
Get(vessel, key) == IF key \in DOMAIN vessel THEN vessel[key] ELSE Undefined

\* ETA_UPDATED and FIRST_POS_TIMESTAMP
FormatTimestamp(v) ==
  IF Truthy(v) /\ ~isNaN(v) THEN EpochToIso(parseInt(v)) ELSE v

\* new Date(ms).toISOString().split('T')[0] for a number of milliseconds;
\* the integers of the model stay within a month of the epoch
DigitChar(n) == CHOOSE c \in Digits : DigitVal(c) = n
TwoDigits(n) == <<DigitChar(n \div 10), DigitChar(n % 10)>>
MsPerDay == 86400000
DateOfMs(v) ==
  LET ms == IF v.mant >= 0 THEN v.mant \div Pow10(v.frac)
            ELSE 0 - ((0 - v.mant) \div Pow10(v.frac))
      day == ms \div MsPerDay
  IN IF day >= 0
     THEN Str(<<"1", "9", "7", "0", "-", "0", "1", "-">> \o TwoDigits(day + 1))
     ELSE Str(<<"1", "9", "6", "9", "-", "1", "2", "-">> \o TwoDigits(32 + day))

FormatLaunchDate(v) ==
  IF ~Truthy(v) THEN v
  ELSE IF IsNum(v) THEN DateOfMs(v)
  ELSE IF IsStr(v) /\ IsIsoDate(v.s) THEN v
  ELSE Null

FormatNumeric(v) ==
  IF IsStr(v) THEN
    LET r == ReplaceFirstComma(v.s)
        n == parseFloat(r)
    IN IF n.t = "nan" THEN Str(r) ELSE n
  ELSE v

formatVesselData(vessel) ==
  [key \in DOMAIN vessel |->
     LET v == IF vessel[key].t = "undefined" THEN Null ELSE vessel[key]
     IN CASE key \in {"ETA_UPDATED", "FIRST_POS_TIMESTAMP"} -> FormatTimestamp(v)
          [] key = "LAUNCH_DATE" -> FormatLaunchDate(v)
          [] key \in numericFields -> FormatNumeric(v)
          [] OTHER -> v]

(***************************************************************************)
(* Payloads.  A payload is [kind, items]: an object with an array under    *)
(* `data`, `vessels` or `ships`, a bare array, or an object with none of   *)
(* them; items are vessel records, or null.                                *)
(***************************************************************************)
NoData == [kind |-> "null", items |-> <<>>]
IsNullItem(item) == DOMAIN item = {"t"}

\* the vessel-shape predicate of the response handler; data[0].imo on a
\* null first element throws TypeError
ShapeThrows(data) ==
  data.kind = "array" /\ Len(data.items) > 0 /\ IsNullItem(data.items[1])
VesselShape(data) ==
  /\ data.kind # "null"
  /\ \/ data.kind = "data" /\ Len(data.items) > 0
     \/ data.kind = "vessels" /\ Len(data.items) > 0
     \/ /\ data.kind = "array" /\ Len(data.items) > 0
        /\ \E k \in {"imo", "IMO", "mmsi", "MMSI"} : Truthy(Get(data.items[1], k))

\* runScraper: the record list of a payload
Unpack(data) ==
  IF data.kind \in {"data", "vessels", "array"} THEN data.items ELSE <<>>

vesselA == [SHIP_ID |-> Str(<<"1">>), SHIPNAME |-> Str(<<"A">>),
            SPEED |-> Str(<<"1", ",", "5">>), MMSI |-> Str(<<"9">>)]
vesselB == [SHIP_ID |-> Str(<<"1">>), SPEED |-> Whole(7)]
vesselC == [SHIP_ID |-> Str(<<"2">>), MMSI |-> Str(<<"8">>),
            LAUNCH_DATE |-> Str(<<"x">>), ETA_UPDATED |-> Str(<<"6", "0">>)]
vesselD == [SHIP_ID |-> Str(<<"2">>)]
tableRow == [Flag |-> Str(<<"G", "R">>)]
scriptRow == [imo |-> Str(<<"1", "2", "3">>), mmsi |-> Str(<<"4", "5", "6">>)]

payloadData == [kind |-> "data", items |-> <<vesselA, vesselC, vesselB>>]
payloadArray == [kind |-> "array", items |-> <<vesselC, vesselD, Null>>]
payloadOther == [kind |-> "object", items |-> <<>>]
payloadTable == [kind |-> "data", items |-> <<tableRow>>]
payloadScript == [kind |-> "data", items |-> <<scriptRow>>]
payloadMarkup == [kind |-> "ships", items |-> <<vesselA>>]

\* what a response on the allow-list with a JSON content type can carry;
\* "unparsable" makes response.json() throw
Bodies == {payloadData, payloadArray, payloadOther}
Unparsable == [kind |-> "unparsable", items |-> <<>>]
\* a response: off the allow-list, not JSON, or JSON with a body
ResponseKinds == {"offList", "notJson", "json"}

\* what one extractor can yield
NotFound == [found |-> FALSE, error |-> FALSE, data |-> NoData]
Raised == [found |-> FALSE, error |-> TRUE, data |-> NoData]
Found(p) == [found |-> TRUE, error |-> FALSE, data |-> p]

(***************************************************************************)
(* The table extractor: the function given to page.evaluate, over the rows *)
(* of the container.  A row is the sequence of its cells in document       *)
(* order; a cell is [tag, text] with tag th (or role columnheader), td, or *)
(* gridcell (role gridcell on another element).                            *)
(***************************************************************************)
White == {" "}
RECURSIVE TrimLeft(_)
TrimLeft(s) == IF s # <<>> /\ Head(s) \in White THEN TrimLeft(Tail(s)) ELSE s
RECURSIVE TrimRight(_)
TrimRight(s) ==
  IF s # <<>> /\ s[Len(s)] \in White THEN TrimRight(SubSeq(s, 1, Len(s) - 1)) ELSE s
\* String.prototype.trim
Trim(s) == TrimRight(TrimLeft(s))

IsHeaderCell(c) == c.tag \in {"th", "td"}
IsDataCell(c) == c.tag \in {"td", "gridcell"}
\* querySelectorAll('th, [role="columnheader"], td') on a row
HeaderCells(row) == SelectSeq(row, IsHeaderCell)
\* querySelectorAll('td, [role="gridcell"]') on a row
DataCells(row) == SelectSeq(row, IsDataCell)

\* `Column${i}`
ColumnName(i) == <<"C", "o", "l", "u", "m", "n", DigitChar(i)>>

\* the headers read from the first row, or made up from its cell count
Headers(rows) ==
  LET hc == HeaderCells(rows[1])
  IN IF Len(hc) > 0 THEN [i \in 1..Len(hc) |-> Trim(hc[i].text)]
     ELSE [i \in 1..Len(DataCells(rows[1])) |-> ColumnName(i - 1)]

Greatest(S) == CHOOSE x \in S : \A y \in S : y <= x

\* rowData after headers.forEach: a later header of the same text overwrites
RowData(hdrs, cells) ==
  LET idx == {i \in 1..Len(hdrs) : i <= Len(cells)}
  IN [k \in {hdrs[i] : i \in idx} |->
        Str(Trim(cells[Greatest({i \in idx : hdrs[i] = k})].text))]

DataRowsAll(rows) == rows
\* rows.slice(1)
DataRows(rows) == Tail(rows)

HasCells(row) == Len(DataCells(row)) > 0

\* the value of tableData: [found, data]
tableData(rows) ==
  IF Len(rows) = 0 THEN [found |-> FALSE, data |-> <<>>]
  ELSE LET hdrs == Headers(rows)
           kept == SelectSeq(DataRows(rows), HasCells)
           data == [j \in 1..Len(kept) |-> RowData(hdrs, DataCells(kept[j]))]
       IN IF Len(data) > 0 THEN [found |-> TRUE, data |-> data]
          ELSE [found |-> FALSE, data |-> <<>>]

\* Containers: a first row, then up to MaxDataRows rows of the samples
MaxDataRows == 2
Cell(tag, text) == [tag |-> tag, text |-> text]
FirstRows ==
  {<<Cell("th", <<" ", "N">>), Cell("th", <<"F", " ">>)>>,
   <<Cell("td", <<"N">>), Cell("td", <<"F">>)>>,
   <<Cell("th", <<"N">>), Cell("th", <<"N">>)>>,
   <<Cell("gridcell", <<"x">>), Cell("gridcell", <<"y">>)>>}
SampleRows ==
  {<<Cell("td", <<" ", "A", " ">>), Cell("td", <<"G">>)>>,
   <<Cell("td", <<"B">>)>>,
   <<>>,
   <<Cell("td", <<"C">>), Cell("td", <<"M">>), Cell("td", <<"x">>)>>,
   <<Cell("th", <<"h">>), Cell("td", <<"D">>)>>,
   <<Cell("gridcell", <<"E">>), Cell("gridcell", <<"P">>)>>}
RECURSIVE RowLists(_)
RowLists(n) ==
  IF n = 0 THEN {<<>>}
  ELSE RowLists(n - 1) \cup
       {Append(l, r) : l \in {x \in RowLists(n - 1) : Len(x) = n - 1}, r \in SampleRows}
Containers == {<<>>} \cup {<<h>> \o l : h \in FirstRows, l \in RowLists(MaxDataRows)}

\* what the table extractor can yield to the chain: page.$ or page.evaluate
\* throws, or tableData returns for the container found
TableOutcomes ==
  {Raised} \cup {IF tableData(c).found THEN Found(payloadTable) ELSE NotFound :
                   c \in Containers}

(***************************************************************************)
(* The script-scope extractor: the function given to page.evaluate, over   *)
(* the globals of the page.  A global holds a payload, or nothing.         *)
(***************************************************************************)
WellKnown == <<"vesselData", "gridData", "tableData", "reportData">>
ScanProps == {"vessels", "ships", "tankers", "results"}

\* `sample && (sample.imo || sample.IMO || sample.mmsi || sample.MMSI)`
SampleOk(items) ==
  /\ Len(items) > 0
  /\ ~IsNullItem(items[1])
  /\ \E k \in {"imo", "IMO", "mmsi", "MMSI"} : Truthy(Get(items[1], k))

\* the three checks of the scan on one global that is an object
ScanOne(v) ==
  CASE v.kind = "array" /\ SampleOk(v.items) -> Found([kind |-> "data", items |-> v.items])
    [] v.kind = "data" /\ SampleOk(v.items) -> Found(v)
    [] v.kind \in ScanProps /\ SampleOk(v.items) -> Found([kind |-> "data", items |-> v.items])
    [] OTHER -> NotFound

RECURSIVE ScanKeys(_, _, _)
ScanKeys(window, order, i) ==
  IF i > Len(order) THEN NotFound
  ELSE LET v == window[order[i]]
       IN IF v # NoData /\ ScanOne(v).found THEN ScanOne(v)
          ELSE ScanKeys(window, order, i + 1)

\* a well-known global that is set is returned as it is; otherwise the first
\* global, in enumeration order, that passes the scan
jsData(window, order) ==
  LET set == {i \in DOMAIN WellKnown :
                WellKnown[i] \in DOMAIN window /\ window[WellKnown[i]] # NoData}
  IN IF set # {} THEN Found(window[WellKnown[CHOOSE i \in set : \A j \in set : i <= j]])
     ELSE ScanKeys(window, order, 1)

\* sample pages: two well-known globals, each absent or holding an object
\* with a record array or an empty array, and one other global, absent or
\* holding one of these, a bare record array, an object with a record array
\* under `ships`, or an object with no record array
emptyList == [kind |-> "array", items |-> <<>>]
GlobalKeys == <<"vesselData", "reportData", "store">>
KnownValues == {NoData, payloadScript, emptyList}
OtherValues ==
  KnownValues \cup {payloadOther,
                    [kind |-> "array", items |-> <<scriptRow>>],
                    [kind |-> "ships", items |-> <<scriptRow>>]}
Windows ==
  {[vesselData |-> a, reportData |-> b, store |-> c] :
     a \in KnownValues, b \in KnownValues, c \in OtherValues}

\* what the script-scope extractor can yield to the chain: page.evaluate
\* throws, or jsData returns for the page's globals
ScriptOutcomes == {Raised} \cup {jsData(w, GlobalKeys) : w \in Windows}

(***************************************************************************)
(* The markup extractor: the function given to page.evaluate, over the     *)
(* page's outerHTML as a sequence of characters.  Positions are 1-based: a *)
(* position i of the code is i + 1 here.                                   *)
(***************************************************************************)
Range(f) == {f[i] : i \in DOMAIN f}
Q == "\""
NextIs(s, i, c) == i <= Len(s) /\ s[i] = c

\* index of the first position >= i of s that holds character c
RECURSIVE SkipUntil(_, _, _)
SkipUntil(s, i, c) ==
  IF i <= Len(s) /\ s[i] # c THEN SkipUntil(s, i + 1, c) ELSE i

\* the property names of the four patterns, in the order they are tried
PatternKeys == << <<"d", "a", "t", "a">>, <<"v", "e", "s", "s", "e", "l", "s">>,
                  <<"s", "h", "i", "p", "s">>, <<"t", "a", "n", "k", "e", "r", "s">> >>

\* /"key"\s*:\s*\[\s*\{\s*"([^"]+)"\s*:/ matched at position p: the position
\* after the match, or 0
MatchEnd(html, p, key) ==
  LET lit == <<Q>> \o key \o <<Q>>
      a == p + Len(lit)
      b == SkipWhile(html, a, White)
      c == SkipWhile(html, b + 1, White)
      d == SkipWhile(html, c + 1, White)
      e == SkipWhile(html, d + 1, White)
      f == SkipUntil(html, e + 1, Q)
      g == SkipWhile(html, f + 1, White)
  IN IF /\ a - 1 <= Len(html) /\ SubSeq(html, p, a - 1) = lit
        /\ NextIs(html, b, ":") /\ NextIs(html, c, "[") /\ NextIs(html, d, "{")
        /\ NextIs(html, e, Q) /\ f > e + 1 /\ NextIs(html, f, Q)
        /\ NextIs(html, g, ":")
     THEN g + 1 ELSE 0

Least(S) == CHOOSE x \in S : \A y \in S : x <= y

\* html.match(pattern): the leftmost match as [at, text], at = 0 for none
Match(html, key) ==
  LET hits == {p \in 1..Len(html) : MatchEnd(html, p, key) > 0}
  IN IF hits = {} THEN [at |-> 0, text |-> <<>>]
     ELSE [at |-> Least(hits),
           text |-> SubSeq(html, Least(hits), MatchEnd(html, Least(hits), key) - 1)]

\* html.indexOf(text), for a text that occurs in html
IndexOf(html, text) ==
  Least({q \in 1..(Len(html) - Len(text) + 1) :
           SubSeq(html, q, q + Len(text) - 1) = text})

\* the loop `for (let i = startPos; i < html.length; i++)`: endPos, which
\* stays startPos when the loop runs out
RECURSIVE BraceScan(_, _, _, _)
BraceScan(html, i, bracketCount, startPos) ==
  IF i > Len(html) THEN startPos
  ELSE LET count == bracketCount + (IF html[i] = "{" THEN 1 ELSE 0)
                                 - (IF html[i] = "}" THEN 1 ELSE 0)
       IN IF count = 0 /\ i > startPos THEN i + 1
          ELSE BraceScan(html, i + 1, count, startPos)

\* JSON.parse on the texts of the model: objects, arrays and strings without
\* escapes, white space between tokens.  A value is Str(s), [t |-> "arr",
\* items] or [t |-> "obj", keys, vals]; a parse is [ok, end, val].
Arr(items) == [t |-> "arr", items |-> items]
Obj(keys, vals) == [t |-> "obj", keys |-> keys, vals |-> vals]
NoParse == [ok |-> FALSE, end |-> 0, val |-> Null]
Parsed(end, val) == [ok |-> TRUE, end |-> end, val |-> val]

ParseString(s, i) ==
  LET j == SkipUntil(s, i + 1, Q)
  IN IF NextIs(s, i, Q) /\ NextIs(s, j, Q)
     THEN Parsed(j + 1, Str(SubSeq(s, i + 1, j - 1))) ELSE NoParse

RECURSIVE ParseValue(_, _)
RECURSIVE ParseElements(_, _, _)
RECURSIVE ParseMembers(_, _, _, _)
\* the elements of an array from position i on, items being those read so far
ParseElements(s, i, items) ==
  LET v == ParseValue(s, i)
      j == SkipWhile(s, v.end, White)
  IN IF ~v.ok THEN NoParse
     ELSE IF NextIs(s, j, ",") THEN ParseElements(s, j + 1, Append(items, v.val))
     ELSE IF NextIs(s, j, "]") THEN Parsed(j + 1, Arr(Append(items, v.val)))
     ELSE NoParse
\* the members of an object from position i on
ParseMembers(s, i, keys, vals) ==
  LET k == ParseString(s, SkipWhile(s, i, White))
      c == SkipWhile(s, k.end, White)
      v == ParseValue(s, c + 1)
      j == SkipWhile(s, v.end, White)
  IN IF ~k.ok \/ ~NextIs(s, c, ":") THEN NoParse
     ELSE IF ~v.ok THEN NoParse
     ELSE IF NextIs(s, j, ",")
          THEN ParseMembers(s, j + 1, Append(keys, k.val.s), Append(vals, v.val))
     ELSE IF NextIs(s, j, "}")
          THEN Parsed(j + 1, Obj(Append(keys, k.val.s), Append(vals, v.val)))
     ELSE NoParse
ParseValue(s, i) ==
  LET a == SkipWhile(s, i, White)
      b == SkipWhile(s, a + 1, White)
  IN IF NextIs(s, a, Q) THEN ParseString(s, a)
     ELSE IF NextIs(s, a, "[")
          THEN (IF NextIs(s, b, "]") THEN Parsed(b + 1, Arr(<<>>))
                ELSE ParseElements(s, a + 1, <<>>))
     ELSE IF NextIs(s, a, "{")
          THEN (IF NextIs(s, b, "}") THEN Parsed(b + 1, Obj(<<>>, <<>>))
                ELSE ParseMembers(s, a + 1, <<>>, <<>>))
     ELSE NoParse

\* JSON.parse(text): [ok, val]; not ok is the SyntaxError
JSONparse(text) ==
  LET v == ParseValue(text, 1)
  IN IF v.ok /\ SkipWhile(text, v.end, White) > Len(text) THEN v ELSE NoParse

\* data.key, for a parsed value: the last member of that name
Prop(v, key) ==
  IF v.t = "obj" /\ \E i \in DOMAIN v.keys : v.keys[i] = key
  THEN v.vals[CHOOSE i \in DOMAIN v.keys :
                 v.keys[i] = key /\ \A j \in DOMAIN v.keys : v.keys[j] = key => j <= i]
  ELSE Undefined

\* one pass of `for (const pattern of patterns)` from pattern k on
RECURSIVE TryPatterns(_, _)
TryPatterns(html, k) ==
  IF k > Len(PatternKeys) THEN [found |-> FALSE, data |-> Null]
  ELSE
    LET m == Match(html, PatternKeys[k])
        startPos == IndexOf(html, m.text)
        endPos == BraceScan(html, startPos, 0, startPos)
        from == IF startPos - 1 < 1 THEN 1 ELSE startPos - 1
        jsonStr == SubSeq(html, from, endPos - 1)
        data == JSONparse(jsonStr)
    IN IF /\ m.at > 0 /\ endPos > startPos /\ data.ok
          /\ Truthy(data.val)
          /\ \E key \in Range(PatternKeys) : Truthy(Prop(data.val, key))
       THEN [found |-> TRUE, data |-> data.val]
       ELSE TryPatterns(html, k + 1)

\* the value of htmlData: [found, data]
htmlJson(html) == TryPatterns(html, 1)

\* Pages: JSON documents written out as text and embedded in markup.
\* arrays of the documents hold up to MaxItems objects
MaxItems == 2
Gap(sp) == IF sp THEN <<" ">> ELSE <<>>
RECURSIVE Render(_, _)
RECURSIVE RenderItems(_, _, _)
RECURSIVE RenderMembers(_, _, _)
RenderItems(items, i, sp) ==
  IF i > Len(items) THEN <<>>
  ELSE Render(items[i], sp) \o (IF i < Len(items) THEN <<",">> ELSE <<>>)
       \o RenderItems(items, i + 1, sp)
RenderMembers(v, i, sp) ==
  IF i > Len(v.keys) THEN <<>>
  ELSE <<Q>> \o v.keys[i] \o <<Q>> \o Gap(sp) \o <<":">> \o Gap(sp) \o Render(v.vals[i], sp)
       \o (IF i < Len(v.keys) THEN <<",">> ELSE <<>>) \o RenderMembers(v, i + 1, sp)
Render(v, sp) ==
  CASE v.t = "str" -> <<Q>> \o v.s \o <<Q>>
    [] v.t = "arr" -> <<"[">> \o Gap(sp) \o RenderItems(v.items, 1, sp) \o <<"]">>
    [] v.t = "obj" -> <<"{">> \o Gap(sp) \o RenderMembers(v, 1, sp) \o <<"}">>

pageItem == Obj(<< <<"i", "m", "o">> >>, <<Str(<<"1">>)>>)
\* an object with an array of n items under key, after another member or not
Doc(key, n, lead) ==
  Obj((IF lead THEN << <<"n">> >> ELSE <<>>) \o <<key>>,
      (IF lead THEN <<Str(<<"x">>)>> ELSE <<>>) \o <<Arr([i \in 1..n |-> pageItem])>>)
Docs == {Doc(key, n, lead) : key \in Range(PatternKeys), n \in 1..MaxItems, lead \in BOOLEAN}
Embed(text, inMarkup) ==
  IF inMarkup THEN <<"<", "p", ">">> \o text \o <<"<", "/", "p", ">">> ELSE text
Pages ==
  {[html |-> Embed(Render(doc, sp), inMarkup), doc |-> doc] :
     doc \in Docs, sp \in BOOLEAN, inMarkup \in BOOLEAN}
  \cup {[html |-> Embed(<<"n", "o">>, TRUE), doc |-> Null]}

\* what the markup extractor can yield to the chain: page.evaluate throws, or
\* htmlJson returns for some page
MarkupOutcomes ==
  {Raised} \cup {IF htmlJson(pg.html).found THEN Found(payloadMarkup) ELSE NotFound :
                   pg \in Pages}

(***************************************************************************)
(* The sink: table vessels_mt as a sequence of rows over Columns.          *)
(***************************************************************************)
Columns == {"SHIP_ID", "SHIPNAME", "MMSI", "SPEED", "LAUNCH_DATE", "ETA_UPDATED"}

ValEq(a, b) == a.t = b.t /\ a = b
HasId(v) == v.t \notin {"null", "undefined"}

ExistsNever(table, id) == FALSE
\* SELECT SHIP_ID FROM vessels_mt WHERE SHIP_ID = $1: rowCount > 0
Exists(table, id) ==
  HasId(id) /\ \E i \in DOMAIN table : ValEq(table[i]["SHIP_ID"], id)

\* a statement naming a column the table lacks is refused by the server
KnownColumns(vessel) == DOMAIN vessel \subseteq Columns

UpdateFields(vessel) ==
  {key \in DOMAIN vessel : vessel[key].t # "undefined" /\ key # "SHIP_ID"}

updateVesselAll(table, vessel) ==
  LET fields == UpdateFields(vessel)
  IN IF fields = {} THEN table
     ELSE [i \in DOMAIN table |->
             [c \in Columns |-> IF c \in fields THEN vessel[c] ELSE table[i][c]]]

updateVessel(table, vessel) ==
  LET fields == UpdateFields(vessel)
  IN IF fields = {} THEN table
     ELSE [i \in DOMAIN table |->
             IF ValEq(table[i]["SHIP_ID"], Get(vessel, "SHIP_ID"))
             THEN [c \in Columns |-> IF c \in fields THEN vessel[c] ELSE table[i][c]]
             ELSE table[i]]

insertVessel(table, vessel) ==
  Append(table, [c \in Columns |->
                   IF c \in DOMAIN vessel /\ vessel[c].t # "undefined"
                   THEN vessel[c] ELSE Null])

(***************************************************************************)
(* State.                                                                  *)
(***************************************************************************)
VARIABLES
  env,               \* process.env: whether MT_USERNAME and MT_PASSWORD are set
  mainPc,            \* where main() stands
  isRunning,         \* the guard flag of runScraper
  latestVesselData,  \* the module-level cache of the last payload
  ticks,             \* firings of the interval timer so far
  started,           \* invocations of runScraper that passed the guard
  skipped,           \* invocations that logged the skip and returned
  run,               \* per invocation past the guard: its locals and position
  db,                \* the committed content of vessels_mt
  proc,              \* the process: up, shutting down, or exited and what it left
  probe              \* a function under study with its argument and result, or
                     \* the arrivals an observer of the interceptor noted; not
                     \* touched by the program

vars == <<env, mainPc, isRunning, latestVesselData, ticks, started, skipped, run, db, proc,
          probe>>

NoProbe == [fn |-> "none"]

\* the process while it runs, and what process.exit leaves behind: the exit
\* code, whether pool.end() had resolved, a browser still open, a transaction
\* still open
Up == [state |-> "up", startup |-> "pending", code |-> -1, pool |-> "live",
       browser |-> "none", tx |-> "none"]
Down(code, pool, browser, tx) ==
  [proc EXCEPT !.state = "down", !.code = code, !.pool = pool,
               !.browser = browser, !.tx = tx]

IdleRun ==
  [pc |-> "idle",
   browser |-> "none", closes |-> 0,
   vesselData |-> NoData, parsing |-> {}, responses |-> 0, captured |-> NoData,
   invoked |-> <<>>, yielded |-> {}, errors |-> {}, navFault |-> "none",
   threw |-> FALSE,
   vessels |-> <<>>, idx |-> 1, savedCount |-> 0, errorCount |-> 0,
   client |-> "none", releases |-> 0, tx |-> "none", txdb |-> <<>>, issued |-> <<>>,
   lastCheck |-> "none", writes |-> 0,
   outcome |-> <<>>, txFault |-> FALSE, dbBefore |-> <<>>, failed |-> FALSE]

Program ==
  /\ env \in [creds : BOOLEAN]
  /\ mainPc = "testDb"
  /\ isRunning = FALSE
  /\ latestVesselData = NoData
  /\ ticks = 0
  /\ started = 0
  /\ skipped = 0
  /\ run = [r \in Runs |-> IdleRun]
  /\ db = <<>>
  /\ proc = Up

Init == Program /\ probe = NoProbe

Set(r, rec) == run' = [run EXCEPT ![r] = rec]

(***************************************************************************)
(* runScraper, up to its first await: the guard, and the synchronous start *)
(* of scrapeVesselData (the credentials check throws before any launch).   *)
(***************************************************************************)
GuardOff == FALSE
Guard == isRunning

runScraper ==
  IF Guard
  THEN /\ skipped' = skipped + 1
       /\ UNCHANGED <<isRunning, started, run>>
  ELSE /\ \E r \in Runs :
            /\ run[r].pc = "idle"
            /\ \A q \in Runs : q < r => run[q].pc # "idle"
            /\ Set(r, [IdleRun EXCEPT
                        !.pc = IF env.creds THEN "launch" ELSE "runFinally",
                        !.failed = ~env.creds,
                        !.dbBefore = db])
       /\ isRunning' = TRUE
       /\ started' = started + 1
       /\ UNCHANGED skipped

\* what testDbConnection can find: the table is there, pool.connect() or the
\* query throws, or the table is missing
StartupChecks == {"ok", "unreachable", "noTable"}
StartupPassesWithoutTable(found) == found # "unreachable"
\* testDbConnection returns only when the table exists; otherwise
\* process.exit(1)
StartupPasses(found) == found = "ok"

\* main: testDbConnection, then the first run
MainStart ==
  /\ mainPc = "testDb"
  /\ proc.state = "up"
  /\ \E found \in StartupChecks :
       IF StartupPasses(found)
       THEN /\ mainPc' = "firstRun"
            /\ proc' = [proc EXCEPT !.startup = found]
            /\ runScraper
       ELSE /\ mainPc' = "exited"
            /\ proc' = [Down(1, "live", "none", "none") EXCEPT !.startup = found]
            /\ UNCHANGED <<isRunning, started, skipped, run>>
  /\ UNCHANGED <<env, latestVesselData, ticks, db, probe>>

\* a firing of setInterval(runScraper, INTERVAL_MS)
Tick ==
  /\ mainPc = "scheduled"
  /\ proc.state # "down"
  /\ ticks < MaxTicks
  /\ ticks' = ticks + 1
  /\ runScraper
  /\ UNCHANGED <<env, mainPc, latestVesselData, db, proc, probe>>

(***************************************************************************)
(* scrapeVesselData                                                        *)
(***************************************************************************)
Frame == UNCHANGED <<env, mainPc, isRunning, latestVesselData, ticks, started, skipped, db, proc, probe>>

\* puppeteer.launch
Launch(r) ==
  /\ run[r].pc = "launch"
  /\ \E ok \in BOOLEAN :
       Set(r, IF ok THEN [run[r] EXCEPT !.pc = "setup", !.browser = "open"]
              ELSE [run[r] EXCEPT !.pc = "finally", !.threw = TRUE])
  /\ Frame

\* the awaited steps from newPage to the settle delay, in order
NavOrder == <<"setup", "gotoLogin", "cookie", "waitEmail", "submit", "loginWait",
              "gotoVessels", "mainSection", "gotoReports", "settle", "domCheck">>
\* steps whose failure is caught or cannot fail: the cookie dialog, the wait
\* for #mainSection, the settle timer
Absorbed == {"cookie", "mainSection", "settle"}
NavIndex(p) == CHOOSE i \in DOMAIN NavOrder : NavOrder[i] = p
NavSteps == {NavOrder[i] : i \in 1..(Len(NavOrder) - 1)}

StepFailsLenient(p, ok) == ~ok /\ p \notin (Absorbed \cup {"gotoReports"})
\* whether a step that did not complete throws out of the try block
StepFails(p, ok) == ~ok /\ p \notin Absorbed

NavStep(r) ==
  /\ run[r].pc \in NavSteps
  /\ \E ok \in BOOLEAN :
       /\ ok \/ run[r].pc # "settle"
       /\ LET p == run[r].pc
              noted == [run[r] EXCEPT
                          !.navFault = IF ~ok /\ p \notin Absorbed THEN p ELSE @]
          IN Set(r, IF StepFails(p, ok)
                    THEN [noted EXCEPT !.pc = "finally", !.threw = TRUE]
                    ELSE [noted EXCEPT !.pc = NavOrder[NavIndex(p) + 1]])
  /\ Frame

\* page.on('response') is registered at the end of setup and lives until the
\* browser is closed
Listening == (NavSteps \ {"setup"}) \cup
             {"domCheck", "domRun", "scriptCheck", "scriptRun", "markupCheck", "markupRun"}

\* the handler up to `await response.json()`
Arrival(r, kind, body) ==
  /\ run[r].pc \in Listening
  /\ run[r].responses < MaxResponses
  /\ Set(r, IF kind = "json"
            THEN [run[r] EXCEPT !.responses = @ + 1, !.parsing = @ \cup {body}]
            ELSE [run[r] EXCEPT !.responses = @ + 1])
  /\ UNCHANGED <<env, mainPc, isRunning, latestVesselData, ticks, started, skipped, db, proc>>

ResponseArrives(r) ==
  /\ \E kind \in ResponseKinds, body \in Bodies \cup {Unparsable} : Arrival(r, kind, body)
  /\ UNCHANGED probe

RetainLatest(held, data) == data
\* what the handler stores once the body is parsed
Retain(held, data) ==
  IF ~ShapeThrows(data) /\ VesselShape(data) THEN data ELSE held

\* the handler from the resolution of response.json() on
ResponseParsed(r) ==
  /\ run[r].pc \in Listening
  /\ \E body \in run[r].parsing :
       Set(r, IF body = Unparsable
              THEN [run[r] EXCEPT !.parsing = @ \ {body}]
              ELSE [run[r] EXCEPT !.parsing = @ \ {body},
                                  !.captured = body,
                                  !.vesselData = Retain(@, body),
                                  !.yielded = IF Retain(NoData, body) # NoData
                                              THEN @ \cup {"interceptor"} ELSE @])
  /\ Frame

\* `if (!vesselData)` before each extractor
Chain == <<"dom", "script", "markup">>
CheckPc == [dom |-> "domCheck", script |-> "scriptCheck", markup |-> "markupCheck"]
RunPc == [dom |-> "domRun", script |-> "scriptRun", markup |-> "markupRun"]
NextPc == [dom |-> "scriptCheck", script |-> "markupCheck", markup |-> "finally"]
Outcomes == [dom |-> TableOutcomes, script |-> ScriptOutcomes, markup |-> MarkupOutcomes]

EntersAlways(held) == TRUE
Enters(held) == held = NoData

ExtractorCheck(r, x) ==
  /\ run[r].pc = CheckPc[x]
  /\ Set(r, IF Enters(run[r].vesselData)
            THEN [run[r] EXCEPT !.pc = RunPc[x], !.invoked = Append(@, x)]
            ELSE [run[r] EXCEPT !.pc = NextPc[x]])
  /\ Frame

ExtractedOrCleared(held, out) ==
  IF out.found THEN out.data ELSE IF out.error THEN NoData ELSE held
\* the extractor's try block: a result is stored, an error is caught
Extracted(held, out) == IF out.found THEN out.data ELSE held

ExtractorRun(r, x) ==
  /\ run[r].pc = RunPc[x]
  /\ \E out \in Outcomes[x] :
       Set(r, [run[r] EXCEPT !.pc = NextPc[x],
                             !.vesselData = Extracted(@, out),
                             !.yielded = IF out.found THEN @ \cup {x} ELSE @,
                             !.errors = IF out.error THEN @ \cup {x} ELSE @])
  /\ Frame

\* the finally block, then the return or the rethrow into runScraper's catch
ClosesOnReturn(b, threw) == b = "open" /\ ~threw
\* `if (browser) await browser.close()`, on the normal and the throwing path
Closes(b, threw) == b = "open"

ScrapeFinally(r) ==
  /\ run[r].pc = "finally"
  /\ Set(r, [run[r] EXCEPT
               !.browser = IF Closes(@, run[r].threw) THEN "closed" ELSE @,
               !.closes = IF Closes(run[r].browser, run[r].threw) THEN @ + 1 ELSE @,
               !.parsing = {},
               !.failed = run[r].threw,
               !.pc = IF run[r].threw THEN "runFinally" ELSE "afterScrape"])
  /\ Frame

(***************************************************************************)
(* runScraper after scrapeVesselData returned, and saveVesselsToDatabase   *)
(***************************************************************************)
FrameDb == UNCHANGED <<env, mainPc, isRunning, latestVesselData, ticks, started, skipped, proc, probe>>

\* lines 42-64 of the main script, and the entry of saveVesselsToDatabase up
\* to pool.connect()
AfterScrape(r) ==
  /\ run[r].pc = "afterScrape"
  /\ LET data == run[r].vesselData
         list == Unpack(data)
     IN /\ latestVesselData' = IF data # NoData THEN data ELSE latestVesselData
        /\ Set(r, [run[r] EXCEPT
                     !.vessels = IF data # NoData THEN list ELSE <<>>,
                     !.pc = IF data # NoData /\ Len(list) > 0 THEN "connect"
                            ELSE "runFinally"])
  /\ UNCHANGED <<env, mainPc, isRunning, ticks, started, skipped, db, proc, probe>>

\* pool.connect(), outside the try: a failure propagates with no rollback
Connect(r) ==
  /\ run[r].pc = "connect"
  /\ \E ok \in BOOLEAN :
       Set(r, IF ok THEN [run[r] EXCEPT !.pc = "begin", !.client = "held"]
              ELSE [run[r] EXCEPT !.pc = "runFinally", !.failed = TRUE])
  /\ FrameDb /\ UNCHANGED db

\* how the server answers one statement: it runs, it is refused (which aborts
\* the open transaction), or the connection is gone
Answers == {"ok", "error", "lost"}

\* client.query('BEGIN')
Begin(r) ==
  /\ run[r].pc = "begin"
  /\ \E a \in Answers :
       Set(r, CASE a = "ok" ->
                   [run[r] EXCEPT !.pc = "loop", !.tx = "open", !.txdb = db,
                                  !.issued = Append(@, "BEGIN")]
                [] a = "error" ->
                   [run[r] EXCEPT !.pc = "rollback", !.txFault = TRUE,
                                  !.issued = Append(@, "BEGIN")]
                [] a = "lost" ->
                   [run[r] EXCEPT !.pc = "rollback", !.tx = "lost", !.txFault = TRUE,
                                  !.issued = Append(@, "BEGIN")])
  /\ FrameDb /\ UNCHANGED db

\* the state of the transaction after a statement answered a
TxAfter(tx, a) ==
  CASE tx = "lost" -> "lost"
    [] a = "lost" -> "lost"
    [] tx = "aborted" -> "aborted"
    [] a = "error" -> "aborted"
    [] OTHER -> tx

\* a statement runs only in a transaction that is open and on a live connection
Runs_(tx, a) == tx = "open" /\ a = "ok"

\* the write of one record, given that the existence check ran
Write(table, raw) ==
  LET vessel == formatVesselData(raw)
  IN IF Exists(table, Get(raw, "SHIP_ID"))
     THEN updateVessel(table, vessel)
     ELSE insertVessel(table, vessel)

SendsWriteAlways(table, raw) == TRUE
\* whether the write of this record sends a statement at all: updateVessel
\* returns before its query when no field is left to set
SendsWrite(table, raw) ==
  ~Exists(table, Get(raw, "SHIP_ID")) \/ UpdateFields(formatVesselData(raw)) # {}

\* one pass of the for loop: the existence check, formatVesselData, then the
\* update or the insert, under the per-record try/catch.  On a record that is
\* null `vessel.SHIP_ID` throws in the try block and again in the catch
\* block's message, before errorCount++, so the error leaves the loop for the
\* catch block of the transaction.
ProcessVessel(r) ==
  /\ run[r].pc = "loop"
  /\ run[r].idx <= Len(run[r].vessels)
  /\ LET raw == run[r].vessels[run[r].idx]
         tx == run[r].tx
         table == run[r].txdb
     IN IF IsNullItem(raw)
        THEN Set(r, [run[r] EXCEPT
                       !.idx = @ + 1,
                       !.lastCheck = "threw",
                       !.outcome = Append(@, FALSE),
                       !.pc = "rollback"])
        ELSE \E a1 \in Answers, a2 \in Answers :
          LET selected == Runs_(tx, a1)
              tx1 == TxAfter(tx, a1)
              sends == selected /\ SendsWrite(table, raw)
              accepted == IF KnownColumns(raw) THEN a2 ELSE
                          IF a2 = "lost" THEN "lost" ELSE "error"
              written == selected /\ (~sends \/ Runs_(tx1, accepted))
              tx2 == IF sends THEN TxAfter(tx1, accepted) ELSE tx1
          IN Set(r, [run[r] EXCEPT
                       !.idx = @ + 1,
                       !.tx = tx2,
                       !.txdb = IF written THEN Write(table, raw) ELSE table,
                       !.lastCheck = CASE ~selected -> "failed"
                                       [] Exists(table, Get(raw, "SHIP_ID")) -> "found"
                                       [] OTHER -> "absent",
                       !.writes = IF sends THEN @ + 1 ELSE @,
                       !.savedCount = IF written THEN @ + 1 ELSE @,
                       !.errorCount = IF written THEN @ ELSE @ + 1,
                       !.outcome = Append(@, written)])
  /\ FrameDb /\ UNCHANGED db

\* client.query('COMMIT'): in an aborted transaction the server answers it
\* by rolling back, without an error
Commit(r) ==
  /\ run[r].pc = "loop"
  /\ run[r].idx > Len(run[r].vessels)
  /\ \E a \in Answers :
       LET tx == run[r].tx
           done == a # "lost" /\ (tx = "aborted" \/ Runs_(tx, a))
       IN /\ db' = IF Runs_(tx, a) THEN run[r].txdb ELSE db
          /\ Set(r, [run[r] EXCEPT
                       !.issued = Append(@, "COMMIT"),
                       !.tx = IF tx = "lost" \/ a = "lost" THEN "lost" ELSE "none",
                       !.txFault = ~done,
                       !.pc = IF done THEN "release" ELSE "rollback"])
  /\ FrameDb

\* the catch block: ROLLBACK, then the rethrow
CaughtSwallowed(rec, a) ==
  [rec EXCEPT !.issued = Append(@, "ROLLBACK"),
              !.tx = IF rec.tx = "lost" \/ a = "lost" THEN "lost" ELSE "none",
              !.pc = "release"]
CaughtLeaks(rec, a) ==
  [rec EXCEPT !.issued = Append(@, "ROLLBACK"),
              !.tx = IF rec.tx = "lost" \/ a = "lost" THEN "lost" ELSE "none",
              !.failed = TRUE,
              !.pc = "runFinally"]
\* the catch block of saveVesselsToDatabase; the finally block follows it
\* whether or not ROLLBACK itself failed
Caught(rec, a) ==
  [rec EXCEPT !.issued = Append(@, "ROLLBACK"),
              !.tx = IF rec.tx = "lost" \/ a = "lost" THEN "lost" ELSE "none",
              !.failed = TRUE,
              !.pc = "release"]

Rollback(r) ==
  /\ run[r].pc = "rollback"
  /\ \E a \in Answers : Set(r, Caught(run[r], a))
  /\ FrameDb /\ UNCHANGED db

\* process.exit: no continuation runs after it; what stays behind is a
\* browser that was not closed and a transaction that was not ended
OpenBrowser(runs) == IF \E r \in Runs : runs[r].browser = "open" THEN "open" ELSE "none"
OpenTx(runs) == IF \E r \in Runs : runs[r].tx \in {"open", "aborted"} THEN "open" ELSE "none"
Exit(code, pool, browser, runs) ==
  /\ proc' = Down(code, pool, browser, OpenTx(runs))
  /\ run' = [r \in Runs |-> IdleRun]
  /\ isRunning' = FALSE

\* the finally block: client.release(); a pool.end() that was waiting for this
\* client resolves, and the SIGINT handler goes on to process.exit(0)
Release(r) ==
  /\ run[r].pc = "release"
  /\ LET released == [run EXCEPT ![r] = [run[r] EXCEPT !.client = "released",
                                                         !.releases = @ + 1,
                                                         !.pc = "runFinally"]]
     IN IF proc.state = "ending"
        THEN Exit(0, "ended", OpenBrowser(released), released)
        ELSE run' = released /\ UNCHANGED <<isRunning, proc>>
  /\ UNCHANGED <<env, mainPc, latestVesselData, ticks, started, skipped, db, probe>>

\* the finally block of runScraper; main, awaiting the first run, then sets
\* the interval timer
GuardAfterSuccess(failed) == failed
\* `finally { isRunning = false }`: on the normal and on the failing path
GuardAfter(failed) == FALSE

RunFinally(r) ==
  /\ run[r].pc = "runFinally"
  /\ isRunning' = GuardAfter(run[r].failed)
  /\ Set(r, IdleRun)
  /\ mainPc' = IF mainPc = "firstRun" THEN "scheduled" ELSE mainPc
  /\ UNCHANGED <<env, latestVesselData, ticks, started, skipped, db, proc, probe>>

\* whether pool.end() has to wait: it resolves once no client is checked out
PoolEndWaits == \E r \in Runs : run[r].client = "held"

\* process.on('SIGINT'): `await pool.end()`, then process.exit(0).  While a
\* browser is open the browser library may have its own SIGINT listener (the
\* launch options leave its default in place): it kills the browser and exits
\* with 130 at once, before the handler's await resumes.
Sigint ==
  /\ proc.state = "up"
  /\ IF PoolEndWaits
     THEN /\ proc' = [proc EXCEPT !.state = "ending"]
          /\ UNCHANGED <<run, isRunning>>
     ELSE \/ Exit(0, "ended", OpenBrowser(run), run)
          \/ /\ OpenBrowser(run) = "open"
             /\ Exit(130, "ending", "killed", run)
  /\ UNCHANGED <<env, mainPc, latestVesselData, ticks, started, skipped, db, probe>>

Next ==
  \/ MainStart
  \/ Tick
  \/ Sigint
  \/ \E r \in Runs : Launch(r)
  \/ \E r \in Runs : NavStep(r)
  \/ \E r \in Runs : ResponseArrives(r)
  \/ \E r \in Runs : ResponseParsed(r)
  \/ \E r \in Runs, x \in {"dom", "script", "markup"} : ExtractorCheck(r, x)
  \/ \E r \in Runs, x \in {"dom", "script", "markup"} : ExtractorRun(r, x)
  \/ \E r \in Runs : ScrapeFinally(r)
  \/ \E r \in Runs : AfterScrape(r)
  \/ \E r \in Runs : Connect(r)
  \/ \E r \in Runs : Begin(r)
  \/ \E r \in Runs : ProcessVessel(r)
  \/ \E r \in Runs : Commit(r)
  \/ \E r \in Runs : Rollback(r)
  \/ \E r \in Runs : Release(r)
  \/ \E r \in Runs : RunFinally(r)

Spec == Init /\ [][Next]_vars

\* the steps of one invocation that the event loop takes once the awaited
\* operation has settled; every awaited operation settles, by answering,
\* failing or timing out
Progress(r) ==
  \/ Launch(r) \/ NavStep(r)
  \/ \E x \in {"dom", "script", "markup"} : ExtractorCheck(r, x) \/ ExtractorRun(r, x)
  \/ ScrapeFinally(r) \/ AfterScrape(r) \/ Connect(r) \/ Begin(r)
  \/ ProcessVessel(r) \/ Commit(r) \/ Rollback(r) \/ Release(r) \/ RunFinally(r)
(***************************************************************************)
(* The extractor and normalizer functions on their own: a function is      *)
(* applied to an argument drawn from its inputs.                           *)
(***************************************************************************)
Applying(fn, inputs) == {[fn |-> fn, in |-> x, done |-> FALSE, out |-> Null] : x \in inputs}
Apply(fn, out) ==
  /\ probe.fn = fn
  /\ ~probe.done
  /\ probe' = [probe EXCEPT !.done = TRUE, !.out = out]
  /\ UNCHANGED <<env, mainPc, isRunning, latestVesselData, ticks, started, skipped, run, db,
                 proc>>

ApplyMarkup == Apply("markup", htmlJson(probe.in.html))
ApplyTable == Apply("table", tableData(probe.in))

\* Records for formatVesselData: one numeric field holding a text of up to
\* MaxText characters or another value, or LAUNCH_DATE holding a sample value
MaxText == 3
TextChars == {"1", ",", ".", "a", " "}
RECURSIVE Texts(_)
Texts(n) ==
  IF n = 0 THEN {<<>>}
  ELSE Texts(n - 1) \cup
       {Append(t, c) : t \in {x \in Texts(n - 1) : Len(x) = n - 1}, c \in TextChars}
LaunchValues ==
  {Str(<<>>), Str(<<"x">>), Str(<<"2", "0", "2", "0", "-", "0", "5", "-", "1", "7">>),
   Str(<<"2", "0", "2", "0", "-", "1", "3", "-", "0", "1">>),
   Whole(0), Whole(5), Whole(MsPerDay), Null, Undefined}
FormatInputs ==
  {[f \in {field} |-> Str(t)] : field \in {"SPEED", "LAT"}, t \in Texts(MaxText)}
  \cup {[f \in {"SPEED"} |-> v] : v \in {Whole(7), Num(15, 1), Null, Undefined}}
  \cup {[f \in {"LAUNCH_DATE"} |-> v] : v \in LaunchValues}

ApplyFormat == Apply("format", formatVesselData(probe.in))

PureInit ==
  /\ Program
  /\ probe \in Applying("markup", Pages) \cup Applying("table", Containers)
               \cup Applying("format", FormatInputs)
PureNext == ApplyMarkup \/ ApplyTable \/ ApplyFormat
PureSpec == PureInit /\ [][PureNext]_vars

(***************************************************************************)
(* The navigation session with an observer of the interceptor, who notes   *)
(* the body of the latest response that is on the allow-list, JSON and     *)
(* vessel-shaped, at the moment it arrives.                                *)
(***************************************************************************)
Matching(kind, body) ==
  kind = "json" /\ body # Unparsable /\ ~ShapeThrows(body) /\ VesselShape(body)

ObservedArrival(r) ==
  \E kind \in ResponseKinds, body \in Bodies \cup {Unparsable} :
    /\ Arrival(r, kind, body)
    /\ probe' = [probe EXCEPT !.lastMatch = IF Matching(kind, body) THEN body ELSE @]

InterceptInit == Program /\ probe = [fn |-> "arrivals", lastMatch |-> NoData]
InterceptNext ==
  \/ MainStart
  \/ \E r \in Runs : Launch(r)
  \/ \E r \in Runs : NavStep(r)
  \/ \E r \in Runs : ObservedArrival(r)
  \/ \E r \in Runs : ResponseParsed(r)
InterceptSpec == InterceptInit /\ [][InterceptNext]_vars

FairSpec == Spec /\ \A r \in Runs : WF_vars(Progress(r))

(***************************************************************************)
(* Properties                                                              *)
(***************************************************************************)
InFlight == {r \in Runs : run[r].pc # "idle"}
Sessions == {r \in Runs : run[r].browser = "open"}
Transactions == {r \in Runs : run[r].tx \in {"open", "aborted"}}
ScrapePcs == {"launch"} \cup NavSteps \cup Range(CheckPc) \cup Range(RunPc) \cup {"finally"}
SavePcs == {"connect", "begin", "loop", "rollback", "release"}
Calls == IF mainPc \in {"firstRun", "scheduled"} THEN ticks + 1 ELSE 0

\* C1: at most one invocation of runScraper is past the guard, hence at most
\* one browser session and one open transaction; every call either started a
\* run or was skipped, and a tick that fires during a run changes nothing but
\* the skip it logs.
C1_Serialized ==
  /\ Cardinality(InFlight) <= 1
  /\ Cardinality(Sessions) <= 1
  /\ Cardinality(Transactions) <= 1
  /\ isRunning <=> InFlight # {}
  /\ started + skipped = Calls
C1_TickDropped ==
  (ticks' = ticks + 1 /\ InFlight # {}) =>
     /\ run' = run /\ db' = db /\ isRunning' = isRunning
     /\ started' = started /\ skipped' = skipped + 1
C1_OneRunInFlight == [](C1_Serialized) /\ [][C1_TickDropped]_vars
C1_Witness ==
  /\ skipped > 0 /\ started = 2
  /\ \E r \in Runs : run[r].browser = "open"

\* C2: an extractor is invoked only while no earlier strategy of the chain
\* has yielded a result, and the extractors are invoked in the chain's order.
Earlier(x) ==
  CASE x = "dom" -> {"interceptor"}
    [] x = "script" -> {"interceptor", "dom"}
    [] x = "markup" -> {"interceptor", "dom", "script"}
C2_Step ==
  \A r \in Runs :
    Len(run'[r].invoked) > Len(run[r].invoked) =>
      /\ run[r].yielded \cap Earlier(run'[r].invoked[Len(run'[r].invoked)]) = {}
      /\ run'[r].invoked \in {<<"dom">>, <<"dom", "script">>, <<"dom", "script", "markup">>}
C2_ShortCircuit == [][C2_Step]_vars
C2_Witness ==
  \E r \in Runs :
    /\ run[r].pc = "afterScrape"
    /\ run[r].invoked = <<"dom", "script">>
    /\ run[r].yielded = {"script"}
    /\ run[r].vesselData = payloadScript

\* C3: while a vessel-shaped payload is held, a response that is off the
\* allow-list, not JSON, unparsable or not vessel-shaped leaves the held
\* payload as it is and does not make the session throw.
Untouched(r) ==
  /\ run'[r].vesselData = run[r].vesselData
  /\ run'[r].threw = run[r].threw
  /\ run'[r].pc = run[r].pc
C3_Step ==
  \A r \in Runs :
    (VesselShape(run[r].vesselData) /\ run[r].pc \in Listening) =>
      /\ (run'[r].responses = run[r].responses + 1) => Untouched(r)
      /\ \A body \in run[r].parsing :
           (/\ run'[r].pc = run[r].pc
            /\ run'[r].parsing = run[r].parsing \ {body}
            /\ (body = Unparsable \/ ShapeThrows(body) \/ ~VesselShape(body)))
           => Untouched(r)
C3_HeldSurvives == [][C3_Step]_vars
C3_Witness ==
  \E r \in Runs :
    /\ run[r].vesselData = payloadData
    /\ run[r].captured = payloadOther
    /\ run[r].yielded = {"interceptor"}
    /\ run[r].responses = MaxResponses

\* C4: when every extractor came up empty and the interceptor captured JSON
\* that never passed the shape predicate, scrapeVesselData returns the last
\* captured payload.
C4_LastResort ==
  \A r \in Runs :
    (/\ run[r].pc = "afterScrape"
     /\ run[r].captured # NoData
     /\ run[r].yielded = {})
    => run[r].vesselData = run[r].captured

\* C5: an extractor that raises stores nothing, throws nothing and hands over
\* to the next check; an extractor is invoked whenever no earlier strategy has
\* yielded by the time its check is passed.
PastCheck(x) ==
  CASE x = "dom" -> {"domRun", "scriptCheck", "scriptRun", "markupCheck", "markupRun",
                     "finally", "afterScrape"}
    [] x = "script" -> {"scriptRun", "markupCheck", "markupRun", "finally", "afterScrape"}
    [] x = "markup" -> {"markupRun", "finally", "afterScrape"}
C5_Step ==
  \A r \in Runs : \A x \in Range(Chain) :
    (x \in run'[r].errors /\ x \notin run[r].errors) =>
      /\ run'[r].vesselData = run[r].vesselData
      /\ ~run'[r].threw
      /\ run'[r].pc = NextPc[x]
C5_ChainGoesOn ==
  \A r \in Runs : \A x \in Range(Chain) :
    /\ run[r].errors # {} => ~run[r].threw
    /\ (/\ run[r].pc \in PastCheck(x)
        /\ ~run[r].threw
        /\ run[r].yielded \cap Earlier(x) = {}) => x \in Range(run[r].invoked)
C5_ErrorIsNotFound == [](C5_ChainGoesOn) /\ [][C5_Step]_vars
C5_Witness ==
  \E r \in Runs :
    /\ run[r].pc = "afterScrape"
    /\ run[r].errors = {"dom"}
    /\ run[r].invoked = <<"dom", "script">>
    /\ run[r].vesselData = payloadScript

\* C6: a browser that was launched is closed exactly once by the time
\* scrapeVesselData returns or throws, and never before its finally block.
C6_SessionReleased ==
  \A r \in Runs :
    /\ run[r].pc \in ScrapePcs => run[r].closes = 0
    /\ run[r].pc \in {"afterScrape", "runFinally"} \cup SavePcs =>
         IF run[r].browser = "none" THEN run[r].closes = 0
         ELSE run[r].browser = "closed" /\ run[r].closes = 1
C6_Witness ==
  \E r \in Runs :
    /\ run[r].pc = "runFinally"
    /\ run[r].threw
    /\ run[r].browser = "closed"
    /\ run[r].closes = 1

\* C7: after a failed navigation or login step no extractor is invoked, the
\* scraper throws into runScraper's catch, and no client is acquired and no
\* transaction statement is issued for that run.
C7_NavigationAborts ==
  \A r \in Runs :
    run[r].navFault # "none" =>
      /\ run[r].pc \in {"finally", "runFinally"}
      /\ run[r].threw
      /\ run[r].invoked = <<>>
      /\ run[r].client = "none" /\ run[r].issued = <<>> /\ run[r].tx = "none"
      /\ run[r].pc = "runFinally" => run[r].failed
C7_Witness ==
  \E r \in Runs :
    /\ run[r].navFault = "gotoReports"
    /\ run[r].pc = "runFinally"
    /\ run[r].failed
    /\ run[r].browser = "closed"

\* the table after the writes of the records counted as saved
RECURSIVE ApplySaved(_, _, _, _)
ApplySaved(table, list, saved, n) ==
  IF n = 0 THEN table
  ELSE LET before == ApplySaved(table, list, saved, n - 1)
       IN IF saved[n] THEN Write(before, list[n]) ELSE before

\* C8: when a record of the batch fails and the transaction is committed, the
\* whole batch was processed, no ROLLBACK was issued, and the sink holds the
\* writes of the records that were counted as saved.
C8_FailureIsolated ==
  \A r \in Runs :
    (/\ run[r].pc = "release"
     /\ ~run[r].failed
     /\ \E i \in DOMAIN run[r].outcome : ~run[r].outcome[i])
    => /\ Len(run[r].outcome) = Len(run[r].vessels)
       /\ run[r].issued = <<"BEGIN", "COMMIT">>
       /\ db = ApplySaved(run[r].dbBefore, run[r].vessels, run[r].outcome,
                          Len(run[r].outcome))

\* C9: when BEGIN or COMMIT fails, ROLLBACK is the last statement issued, the
\* run is reported as failed, and the sink is as it was before the run.
C9_AllOrNothing ==
  \A r \in Runs :
    (run[r].txFault /\ run[r].pc \in {"release", "runFinally"}) =>
      /\ run[r].issued[Len(run[r].issued)] = "ROLLBACK"
      /\ run[r].failed
      /\ db = run[r].dbBefore
C9_Witness ==
  \E r \in Runs :
    /\ run[r].txFault
    /\ run[r].pc = "runFinally"
    /\ run[r].savedCount > 0
    /\ run[r].issued = <<"BEGIN", "COMMIT", "ROLLBACK">>

\* C10: a record that is saved either updates, in the rows of its SHIP_ID, the
\* fields it has other than SHIP_ID and leaves every other column, every
\* other row and the row count alone, or, when no row has its SHIP_ID, adds
\* one row holding its fields.
C10_Step ==
  \A r \in Runs :
    (/\ run[r].pc = "loop" /\ run'[r].pc = "loop"
     /\ run'[r].idx = run[r].idx + 1
     /\ run'[r].savedCount = run[r].savedCount + 1)
    => LET raw == run[r].vessels[run[r].idx]
           vessel == formatVesselData(raw)
           id == Get(raw, "SHIP_ID")
           before == run[r].txdb
           after == run'[r].txdb
           hit(i) == HasId(id) /\ ValEq(before[i]["SHIP_ID"], id)
       IN IF \E i \in DOMAIN before : hit(i)
          THEN /\ Len(after) = Len(before)
               /\ \A i \in DOMAIN before : \A c \in Columns :
                    after[i][c] = IF hit(i) /\ c \in DOMAIN vessel /\ c # "SHIP_ID"
                                  THEN vessel[c] ELSE before[i][c]
          ELSE /\ Len(after) = Len(before) + 1
               /\ SubSeq(after, 1, Len(before)) = before
               /\ \A c \in Columns :
                    after[Len(after)][c] = IF c \in DOMAIN vessel THEN vessel[c] ELSE Null
C10_UpsertByIdentity == [][C10_Step]_vars
C10_Witness ==
  \E r \in Runs :
    /\ run[r].outcome = <<TRUE, TRUE, TRUE>>
    /\ Len(run[r].txdb) = 2
    /\ run[r].txdb[1]["SPEED"] = Whole(7)
    /\ run[r].txdb[1]["SHIPNAME"] = Str(<<"A">>)
    /\ run[r].txdb[2]["SHIP_ID"] = Str(<<"2">>)

\* C11: saving a record that has an identity leaves every row of that
\* identity holding the record's values and adds a row only when the identity
\* was absent; saving it again, when the rows of its identity already hold its
\* values, leaves the table as it is.
RowsOf(table, id) == {i \in DOMAIN table : ValEq(table[i]["SHIP_ID"], id)}
Persisted(table, id, vessel) ==
  /\ RowsOf(table, id) # {}
  /\ \A i \in RowsOf(table, id) : \A c \in DOMAIN vessel : table[i][c] = vessel[c]
C11_Step ==
  \A r \in Runs :
    (/\ run[r].pc = "loop" /\ run'[r].pc = "loop"
     /\ run'[r].idx = run[r].idx + 1
     /\ run'[r].savedCount = run[r].savedCount + 1
     /\ HasId(Get(run[r].vessels[run[r].idx], "SHIP_ID")))
    => LET raw == run[r].vessels[run[r].idx]
           vessel == formatVesselData(raw)
           id == Get(raw, "SHIP_ID")
           before == run[r].txdb
           after == run'[r].txdb
       IN /\ Persisted(after, id, vessel)
          /\ Cardinality(RowsOf(after, id)) =
               IF RowsOf(before, id) = {} THEN 1 ELSE Cardinality(RowsOf(before, id))
          /\ Persisted(before, id, vessel) => after = before
C11_UpsertIdempotent == [][C11_Step]_vars
\* the second of two consecutive runs saved the batch of the first again
C11_Witness ==
  \E r \in Runs :
    /\ run[r].vessels = payloadData.items
    /\ run[r].outcome = <<TRUE, TRUE, TRUE>>
    /\ Len(run[r].dbBefore) = 2
    /\ Persisted(run[r].dbBefore, vesselC["SHIP_ID"], formatVesselData(vesselC))
    /\ run[r].txdb = run[r].dbBefore

\* C12: whatever the outcome of a run, the guard returns to false (unless the
\* process is shut down first); the end of a run leaves the process up with
\* the timer set, and a tick that finds the guard down starts a run.
C12_RunEnds ==
  (isRunning /\ ~isRunning' /\ proc'.state # "down") =>
     /\ \E r \in Runs : run[r].pc = "runFinally"
     /\ proc' = proc
     /\ mainPc' = "scheduled"
C12_TickStarts ==
  (ticks' = ticks + 1 /\ ~isRunning) =>
     /\ started' = started + 1
     /\ isRunning'
     /\ \E r \in Runs : run'[r].pc \in {"launch", "runFinally"}
C12_FutureRuns ==
  /\ isRunning ~> ~isRunning
  /\ [][C12_RunEnds /\ C12_TickStarts]_vars
\* a tick started a run after a run that had failed in its transaction
C12_Witness ==
  /\ started = 2 /\ ticks = 1 /\ isRunning
  /\ db = <<>>
  /\ latestVesselData = payloadData

\* C13: for a page that embeds a well-formed JSON object with a non-empty
\* array of objects under data, vessels, ships or tankers, the markup
\* extractor returns Found with that object.
C13_MarkupRecovers ==
  (probe.fn = "markup" /\ probe.done /\ probe.in.doc # Null) =>
     probe.out = [found |-> TRUE, data |-> probe.in.doc]

\* C14: for a container whose first row has header cells, the table extractor
\* yields one record per following row that has a data cell, in row order and
\* none for the rows without; each record has exactly the trimmed header
\* texts for which the row has a cell, with the trimmed cell text as value.
C14_Kept(rows) == {j \in 2..Len(rows) : \E i \in DOMAIN rows[j] : IsDataCell(rows[j][i])}
C14_TableRecords ==
  (/\ probe.fn = "table" /\ probe.done
   /\ Len(probe.in) > 0
   /\ \E i \in DOMAIN probe.in[1] : IsHeaderCell(probe.in[1][i]))
  => LET rows == probe.in
         hdr == [i \in 1..Len(HeaderCells(rows[1])) |-> Trim(HeaderCells(rows[1])[i].text)]
         kept == C14_Kept(rows)
         out == probe.out
     IN /\ out.found <=> kept # {}
        /\ Len(out.data) = Cardinality(kept)
        /\ \A j \in kept :
             LET n == Cardinality({k \in kept : k <= j})
                 cells == DataCells(rows[j])
                 has == {i \in 1..Len(hdr) : i <= Len(cells)}
             IN /\ DOMAIN out.data[n] = {hdr[i] : i \in has}
                /\ \A i \in has :
                     (\A i2 \in has : hdr[i2] = hdr[i] => i2 = i)
                     => out.data[n][hdr[i]] = Str(Trim(cells[i].text))
\* a header row, a full row, a row without cells and a short row: two records,
\* the second without the second key
C14_Witness ==
  /\ probe.fn = "table" /\ probe.done
  /\ Len(probe.in) = 3
  /\ probe.in[1] = <<Cell("th", <<" ", "N">>), Cell("th", <<"F", " ">>)>>
  /\ probe.in[3] = <<Cell("td", <<"B">>)>>
  /\ probe.out.found
  /\ Len(probe.out.data) = 2
  /\ probe.out.data[1] = (<<"N">> :> Str(<<"A">>)) @@ (<<"F">> :> Str(<<"G">>))
  /\ probe.out.data[2] = (<<"N">> :> Str(<<"B">>))

\* C15: when testDbConnection finds the table missing or the sink out of
\* reach, the process exits with code 1 and no run was started, no browser
\* launched and no timer set; a run, a skip or a tick happens only after the
\* check has passed.
C15_StartupGate ==
  /\ proc.startup \in {"unreachable", "noTable"} =>
       /\ proc.state = "down" /\ proc.code = 1
       /\ mainPc = "exited"
       /\ started = 0 /\ skipped = 0 /\ ticks = 0
       /\ \A r \in Runs : run[r] = IdleRun
       /\ db = <<>>
  /\ (started > 0 \/ ticks > 0 \/ mainPc \in {"firstRun", "scheduled"}
      \/ \E r \in Runs : run[r].pc # "idle")
     => proc.startup = "ok"
C15_Witness ==
  /\ proc.startup = "noTable"
  /\ proc.state = "down"
  /\ mainPc = "exited"

\* C17: when the process exits on a shutdown signal, pool.end() has resolved,
\* no browser of a run is left open and no transaction is left open.
C17_GracefulShutdown ==
  (proc.state = "down" /\ proc.startup = "ok") =>
     /\ proc.pool = "ended"
     /\ proc.browser # "open"
     /\ proc.tx = "none"

\* C16: a run whose payload came from the script-scope extractor as
\* {data: [{imo, mmsi}]} did not invoke the markup extractor, handed exactly
\* one record to the sink, and once its transaction is over without a fault
\* the table holds one more row, whose SHIP_ID is the record's imo or mmsi.
C16_ScriptScopeEndToEnd ==
  \A r \in Runs :
    (/\ run[r].pc = "release"
     /\ run[r].yielded = {"script"}
     /\ run[r].vessels = <<scriptRow>>
     /\ ~run[r].txFault /\ run[r].tx # "lost")
    => /\ run[r].invoked = <<"dom", "script">>
       /\ Len(run[r].vessels) = 1
       /\ run[r].outcome = <<TRUE>>
       /\ Len(db) = Len(run[r].dbBefore) + 1
       /\ db[Len(db)]["SHIP_ID"] \in {scriptRow["imo"], scriptRow["mmsi"]}

\* C18: when the session has settled and every response body has been
\* parsed, the payload held is the body of the matching response that arrived
\* last.
C18_LastMatchWins ==
  \A r \in Runs :
    (/\ run[r].pc = "domCheck"
     /\ run[r].parsing = {}
     /\ probe.lastMatch # NoData)
    => run[r].vesselData = probe.lastMatch

\* C19: a numeric field that holds text is stored as the number its
\* comma-to-point text parses to, and is otherwise left equal to the input
\* text, character for character.
ReplaceCommas(s) == [i \in 1..Len(s) |-> IF s[i] = "," THEN "." ELSE s[i]]
C19_UnparsableKept ==
  (probe.fn = "format" /\ probe.done) =>
    \A field \in DOMAIN probe.in \cap numericFields :
      IsStr(probe.in[field]) =>
        LET n == parseFloat(ReplaceCommas(probe.in[field].s))
        IN probe.out[field] = IF n.t = "nan" THEN probe.in[field] ELSE n

\* C20: after formatVesselData a LAUNCH_DATE that the record has is null or a
\* YYYY-MM-DD date string.
C20_LaunchDateOrNull ==
  (probe.fn = "format" /\ probe.done /\ "LAUNCH_DATE" \in DOMAIN probe.in) =>
    \/ probe.out["LAUNCH_DATE"] = Null
    \/ /\ IsStr(probe.out["LAUNCH_DATE"])
       /\ IsIsoDate(probe.out["LAUNCH_DATE"].s)

\* C21: a record that the existence check finds and that has no field other
\* than SHIP_ID sends no UPDATE, leaves the table and the transaction as they
\* are, is counted as saved and not as an error, and the loop goes on.
C21_Step ==
  \A r \in Runs :
    (/\ run[r].pc = "loop" /\ run[r].idx <= Len(run[r].vessels)
     /\ run'[r].idx = run[r].idx + 1
     /\ DOMAIN run[r].vessels[run[r].idx] = {"SHIP_ID"}
     /\ run'[r].lastCheck = "found")
    => /\ run'[r].writes = run[r].writes
       /\ run'[r].txdb = run[r].txdb /\ db' = db
       /\ run'[r].tx = run[r].tx
       /\ run'[r].savedCount = run[r].savedCount + 1
       /\ run'[r].errorCount = run[r].errorCount
       /\ run'[r].pc = "loop"
C21_EmptyUpdateIsNoop == [][C21_Step]_vars
C21_Witness ==
  \E r \in Runs :
    /\ run[r].vessels = payloadArray.items
    /\ run[r].idx = 3
    /\ run[r].lastCheck = "found"
    /\ run[r].outcome = <<TRUE, TRUE>>
    /\ run[r].writes = 1
    /\ Len(run[r].dbBefore) = 2

\* C22: when an extractor of the chain yielded Found, scrapeVesselData returns
\* that extractor's payload, whenever the response handlers still parsing
\* finish.
ChainPayload == [dom |-> payloadTable, script |-> payloadScript, markup |-> payloadMarkup]
C22_ChainFixesResult ==
  \A r \in Runs :
    run[r].pc = "afterScrape" =>
      \A x \in {"dom", "script", "markup"} :
        x \in run[r].yielded => run[r].vesselData = ChainPayload[x]

\* C23: every payload that scrapeVesselData returns unpacks in runScraper to
\* a list of at least one record.
C23_SuccessHasRecords ==
  \A r \in Runs :
    (run[r].pc = "afterScrape" /\ run[r].vesselData # NoData) =>
      Len(Unpack(run[r].vesselData)) > 0

\* C24: throughout saveVesselsToDatabase savedCount + errorCount is the
\* number of records the loop has taken, savedCount counts the records that
\* were written and errorCount the others, and once COMMIT is issued the sum
\* is the size of the batch.
C24_Accounting ==
  \A r \in Runs :
    run[r].pc \in SavePcs =>
      /\ run[r].savedCount + run[r].errorCount = run[r].idx - 1
      /\ run[r].savedCount = Cardinality({i \in DOMAIN run[r].outcome : run[r].outcome[i]})
      /\ run[r].errorCount = Cardinality({i \in DOMAIN run[r].outcome : ~run[r].outcome[i]})
      /\ "COMMIT" \in Range(run[r].issued) =>
           run[r].savedCount + run[r].errorCount = Len(run[r].vessels)

\* C25: a client taken from the pool is held until the finally block of
\* saveVesselsToDatabase and has been released exactly once when the function
\* has returned or thrown, whichever way it went; no client is taken for an
\* empty record list, nor when pool.connect() fails.
C25_ClientReleased ==
  \A r \in Runs :
    /\ run[r].pc \in {"begin", "loop", "rollback", "release"} =>
         run[r].client = "held" /\ run[r].releases = 0
    /\ run[r].pc = "runFinally" =>
         IF run[r].issued # <<>>
         THEN run[r].client = "released" /\ run[r].releases = 1
         ELSE run[r].client = "none" /\ run[r].releases = 0
    /\ run[r].pc \notin {"begin", "loop", "rollback", "release", "runFinally"} =>
         run[r].client = "none" /\ run[r].releases = 0
    /\ run[r].client # "none" => Len(run[r].vessels) > 0
\* BEGIN met a lost connection and ROLLBACK failed on it as well
C25_Witness ==
  \E r \in Runs :
    /\ run[r].pc = "runFinally"
    /\ run[r].issued = <<"BEGIN", "ROLLBACK">>
    /\ run[r].tx = "lost"
    /\ run[r].client = "released" /\ run[r].releases = 1
    /\ run[r].failed

====
